---- MODULE Spec2Model ----
(***************************************************************************)
(* Hybrid hierarchical retrieval and rank fusion of the patent discovery   *)
(* service: fuse_rrf (services/retrieval/fusion.py) and                    *)
(* HierarchicalRetriever (services/retrieval/hierarchical.py).             *)
(*                                                                         *)
(* Scores.  fuse_rrf adds terms 1.0 / (k + rank).  The model keeps every   *)
(* score as an exact multiple of 1 / Scale(k), Scale(k) being the product  *)
(* of all k + rank that can occur, so a score s of the model stands for    *)
(* the rational s / Scale(k) and "score = 1/(k+r)" reads                   *)
(* s * (k + r) = Scale(k).  The score an input match carries is never read *)
(* by fuse_rrf and is left out of the input records.                       *)
(***************************************************************************)
EXTENDS Integers, Sequences, FiniteSets, TLC

VARIABLES
    fpc,              \* position of the fusion run: "input", "fused", "swapped"
    dense_results,    \* fuse_rrf argument
    sparse_results,   \* fuse_rrf argument
    k,                \* fuse_rrf argument (RRF constant)
    top_k,            \* fuse_rrf argument
    results,          \* fuse_rrf(dense_results, sparse_results, k, top_k)
    swapped,          \* fuse_rrf(sparse_results, dense_results, k, top_k)
    hpc,              \* position of retrieve_claims_hierarchical
    has_sparse,       \* self.sparse is not None
    query_text,       \* argument: None (Absent), "" or a text
    base_filter,      \* argument
    dense_pat,        \* patent-stage dense hits
    sparse_pat,       \* patent-stage sparse hits
    fused_pat,        \* fuse_rrf output of the patent stage
    patent_ids,       \* patent ids extracted from fused_pat
    result,           \* the value returned
    error,            \* the exception raised, Absent when none
    log,              \* adapter calls, their completions and the fusion, in order
    rpc,              \* position of rerank
    reranker,         \* "openai" (OpenAIReranker) or "noop" (NoopReranker)
    rr_cfg,           \* self.cfg: RerankConfig
    items,            \* rerank argument
    candidates,       \* items[:max_candidates]
    llm_calls,        \* calls of llm.generate_text made by rerank
    response,         \* what the model answered: rerank reads response.text only
    ranked_ids,       \* _parse_ranked_ids(text)
    rr_out,           \* out, before the final truncation
    rr_result,        \* the value rerank returns
    apc,              \* position of _to_evidence_items
    matches,          \* _to_evidence_items argument
    source,           \* _to_evidence_items argument
    collection,       \* the documents of the store's collection
    lookups,          \* the queries sent to the collection, in order
    chunks_map,       \* what get_chunks_by_ids returned
    evidence,         \* the value _to_evidence_items returns
    retry_pc,         \* position of generate_text / embed
    client,           \* "generator" (GeminiClient) or "embedder" (OpenAIEmbedder)
    max_retries,      \* cfg.max_retries
    call_text,        \* the prompt, or the text to embed
    attempt,          \* loop variable of the retry loop
    attempts,         \* outcomes of the provider calls made, in order
    sleeps,           \* backoff sleeps taken, in units of backoff_base_seconds
    outcome,          \* how the call ended
    dpc,              \* position of the dense search
    entry,            \* the method called
    dense_vector,     \* argument
    d_top_k,          \* argument top_k
    metadata_filter,  \* argument
    d_level,          \* argument level of a direct query
    index_queries,    \* queries sent to the vector indexes, in order
    d_outcome,        \* how the call ended
    d_result,         \* the value returned
    bpc,              \* position of _build_filter_clauses
    sparse_filter,    \* argument metadata_filter
    filter_clauses,   \* the value returned
    qpc,              \* position of RAGOrchestrator.query
    query,            \* argument
    mode,             \* argument
    final_top_n,      \* policy.final_top_n
    q_candidates,     \* what the hierarchical retrieval returned
    evidence_items,   \* the local evidence_items after the truncation
    stages,           \* the stages started and completed, in order
    generate_calls,   \* calls of the generative model: the evidence count of each prompt
    q_response,       \* the QueryResponse returned
    q_outcome         \* how query ended

fvars == <<fpc, dense_results, sparse_results, k, top_k, results, swapped>>

hvars == <<hpc, has_sparse, query_text, base_filter, dense_pat, sparse_pat,
           fused_pat, patent_ids, result, error, log>>

rvars == <<rpc, reranker, rr_cfg, items, candidates, llm_calls, response,
           ranked_ids, rr_out, rr_result>>

avars == <<apc, matches, source, collection, lookups, chunks_map, evidence>>

yvars == <<retry_pc, client, max_retries, call_text, attempt, attempts, sleeps, outcome>>

dvars == <<dpc, entry, dense_vector, d_top_k, metadata_filter, d_level, index_queries, d_outcome, d_result>>

bvars == <<bpc, sparse_filter, filter_clauses>>

qvars == <<qpc, query, mode, final_top_n, q_candidates, evidence_items, stages, generate_calls, q_response, q_outcome>>

vars == <<fpc, dense_results, sparse_results, k, top_k, results, swapped,
          hpc, has_sparse, query_text, base_filter, dense_pat, sparse_pat,
          fused_pat, patent_ids, result, error, log,
          rpc, reranker, rr_cfg, items, candidates, llm_calls, response,
          ranked_ids, rr_out, rr_result,
          apc, matches, source, collection, lookups, chunks_map, evidence,
          retry_pc, client, max_retries, call_text, attempt, attempts, sleeps, outcome,
          dpc, entry, dense_vector, d_top_k, metadata_filter, d_level, index_queries, d_outcome, d_result,
          bpc, sparse_filter, filter_clauses,
          qpc, query, mode, final_top_n, q_candidates, evidence_items, stages, generate_calls, q_response, q_outcome>>

\* the variables that the actions of one component leave alone
not_fusion == <<hvars, rvars, avars, yvars, dvars, bvars, qvars>>
not_hier == <<fvars, rvars, avars, yvars, dvars, bvars, qvars>>
not_rerank == <<fvars, hvars, avars, yvars, dvars, bvars, qvars>>
not_assemble == <<fvars, hvars, rvars, yvars, dvars, bvars, qvars>>
not_retry == <<fvars, hvars, rvars, avars, dvars, bvars, qvars>>
not_dense == <<fvars, hvars, rvars, avars, yvars, bvars, qvars>>
not_filter == <<fvars, hvars, rvars, avars, yvars, dvars, qvars>>
not_query == <<fvars, hvars, rvars, avars, yvars, dvars, bvars>>

----------------------------------------------------------------------------
(* Bounds *)

MaxLen == 3         \* longest result list an adapter returns
MaxTopK == 3        \* largest top_k tried

(* Values *)

Absent == "<absent>"                    \* a key a dict does not have
Ids == {"P1", "P2", "P3"}               \* match ids
PatentIdValues == {"P3"}                \* values of metadata["patent_id"]
RrfKs == {1, 60}                        \* k: a small one and fuse_rrf's default
TopKs == 1 .. MaxTopK

Min(a, b) == IF a <= b THEN a ELSE b
Max(a, b) == IF a >= b THEN a ELSE b

\* ScoredMatch: id and metadata; metadata is a dict whose patent_id key may
\* be missing, the rest of the dict is identified by (src, doc).
ScoredMatch(id, pid, src) ==
    [id |-> id, metadata |-> [patent_id |-> pid, src |-> src, doc |-> id]]

Matches(src) ==
    {ScoredMatch(id, pid, src) : id \in Ids, pid \in PatentIdValues \cup {Absent}}

\* Result lists of one adapter: ids are unique within a list.
ResultLists(src) ==
    UNION {{s \in [1 .. n -> Matches(src)] :
               \A i, j \in 1 .. n : i # j => s[i].id # s[j].id} : n \in 0 .. MaxLen}

----------------------------------------------------------------------------
(* Python dicts (insertion ordered) as sequences of [key, val] entries *)

DictHas(d, key) == \E i \in 1 .. Len(d) : d[i].key = key

DictGet(d, key, default) ==
    IF DictHas(d, key)
    THEN d[CHOOSE i \in 1 .. Len(d) : d[i].key = key].val
    ELSE default

DictSet(d, key, v) ==
    IF DictHas(d, key)
    THEN [i \in 1 .. Len(d) |-> IF d[i].key = key THEN [key |-> key, val |-> v] ELSE d[i]]
    ELSE Append(d, [key |-> key, val |-> v])

DictKeys(d) == [i \in 1 .. Len(d) |-> d[i].key]

----------------------------------------------------------------------------
(* fuse_rrf *)

RECURSIVE Product(_, _)
Product(kk, n) == IF n = 0 THEN 1 ELSE (kk + n) * Product(kk, n - 1)

\* common denominator of all rank terms for constant kk
Scale(kk) == Product(kk, MaxLen)

\* 1.0 / (k + rank), in units of 1 / Scale(kk)
RankTermZeroBased(kk, rank) == Scale(kk) \div (kk + rank - 1)

RankTerm(kk, rank) == Scale(kk) \div (kk + rank)

\* match.metadata.get("patent_id", match.id)
JoinKeyRawId(match) == match.id

JoinKeyNoFallback(match) ==
    IF match.metadata.patent_id = Absent THEN "" ELSE match.metadata.patent_id

JoinKey(match) ==
    IF match.metadata.patent_id = Absent THEN match.id ELSE match.metadata.patent_id

\* sparse_patent_ids
SparsePatentIds(sparse) == {JoinKey(sparse[i]) : i \in 1 .. Len(sparse)}

\* line 63: a dense result is fused only if its key is in the sparse allowlist
DenseAllowedAlways(patent_id, allow) == TRUE

DenseAllowed(patent_id, allow) == patent_id \in allow

\* scores[patent_id] = scores.get(patent_id, 0.0) + 1.0 / (k + rank)
AddRankTermOverwrite(scores, patent_id, kk, rank) ==
    DictSet(scores, patent_id, RankTerm(kk, rank))

AddRankTerm(scores, patent_id, kk, rank) ==
    DictSet(scores, patent_id, DictGet(scores, patent_id, 0) + RankTerm(kk, rank))

RECURSIVE DenseLoop(_, _, _, _, _)
DenseLoop(dense, allow, kk, rank, st) ==
    IF rank > Len(dense) THEN st
    ELSE LET match == dense[rank]
             patent_id == JoinKey(match)
         IN DenseLoop(dense, allow, kk, rank + 1,
                IF DenseAllowed(patent_id, allow)
                THEN [scores |-> AddRankTerm(st.scores, patent_id, kk, rank),
                      metadata_map |-> DictSet(st.metadata_map, patent_id, match.metadata)]
                ELSE st)

RECURSIVE SparseLoop(_, _, _, _)
SparseLoop(sparse, kk, rank, st) ==
    IF rank > Len(sparse) THEN st
    ELSE LET match == sparse[rank]
             patent_id == JoinKey(match)
         IN SparseLoop(sparse, kk, rank + 1,
                [scores |-> AddRankTerm(st.scores, patent_id, kk, rank),
                 metadata_map |-> IF ~DictHas(st.metadata_map, patent_id)
                                  THEN DictSet(st.metadata_map, patent_id, match.metadata)
                                  ELSE st.metadata_map])

RemoveAt(s, i) == SubSeq(s, 1, i - 1) \o SubSeq(s, i + 1, Len(s))

\* the key sorted() emits next: the greatest score; among equal scores the
\* stable sort keeps the one that comes first in keys
LastMaxIndex(keys, scores) ==
    CHOOSE a \in 1 .. Len(keys) :
        /\ \A b \in 1 .. Len(keys) :
              DictGet(scores, keys[b], 0) <= DictGet(scores, keys[a], 0)
        /\ \A b \in a + 1 .. Len(keys) :
              DictGet(scores, keys[b], 0) < DictGet(scores, keys[a], 0)

FirstMaxIndex(keys, scores) ==
    CHOOSE a \in 1 .. Len(keys) :
        /\ \A b \in 1 .. Len(keys) :
              DictGet(scores, keys[b], 0) <= DictGet(scores, keys[a], 0)
        /\ \A b \in 1 .. a - 1 :
              DictGet(scores, keys[b], 0) < DictGet(scores, keys[a], 0)

\* sorted(keys, key=lambda x: scores[x], reverse=True)
RECURSIVE SortedDesc(_, _)
SortedDesc(keys, scores) ==
    IF Len(keys) = 0 THEN <<>>
    ELSE LET i == FirstMaxIndex(keys, scores)
         IN <<keys[i]>> \o SortedDesc(RemoveAt(keys, i), scores)

\* s[:n]
SliceOneMore(s, n) ==
    IF n >= 0 THEN SubSeq(s, 1, Min(n + 1, Len(s)))
    ELSE SubSeq(s, 1, Max(0, Len(s) + n + 1))

Slice(s, n) ==
    IF n >= 0 THEN SubSeq(s, 1, Min(n, Len(s)))
    ELSE SubSeq(s, 1, Max(0, Len(s) + n))

fuse_rrf(dense, sparse, kk, n) ==
    LET allow == SparsePatentIds(sparse)
        st0 == [scores |-> <<>>, metadata_map |-> <<>>]
        st1 == DenseLoop(dense, allow, kk, 1, st0)
        st2 == SparseLoop(sparse, kk, 1, st1)
        sorted_ids == SortedDesc(DictKeys(st2.scores), st2.scores)
        top == Slice(sorted_ids, n)
    IN [i \in 1 .. Len(top) |->
            [id |-> top[i],
             score |-> DictGet(st2.scores, top[i], 0),
             metadata |-> DictGet(st2.metadata_map, top[i], Absent)]]

----------------------------------------------------------------------------
(* HierarchicalRetriever *)

\* HierarchicalConfig defaults
patent_top_k == 10
claim_top_k == 30
rrf_k == 30
dense_top_k == 20
sparse_top_k == 20

\* arguments of one invocation
QueryTexts == {Absent, "", "fuel cell"}

\* a filter constraint: missing, a plain value, or {"$in": [...]}
NoConstraint == [op |-> "absent", val |-> <<>>]
Eq(v) == [op |-> "eq", val |-> <<v>>]
In(vs) == [op |-> "in", val |-> vs]

BaseFilters ==
    {[level |-> NoConstraint, patent_id |-> NoConstraint],
     [level |-> Eq("claim"), patent_id |-> NoConstraint],
     [level |-> NoConstraint, patent_id |-> Eq("P9")]}

\* {**defaults, **base}: a key of base replaces the same key of defaults
DictMerge(defaults, base) ==
    [f \in DOMAIN defaults |-> IF base[f] = NoConstraint THEN defaults[f] ELSE base[f]]

\* patent_filter = {"level": "patent", **base_filter}
PatentFilter(base) ==
    DictMerge([level |-> Eq("patent"), patent_id |-> NoConstraint], base)

\* claim_filter = {"level": "claim", "patent_id": {"$in": patent_ids}, **base_filter}
ClaimFilter(base, ids) ==
    DictMerge([level |-> Eq("claim"), patent_id |-> In(ids)], base)

\* what the adapters can return: hits of the vector index and of the BM25 index
HitIds == {"P1", "X9"}
HitPatentIds == {"", "X9"}

Hits(src) ==
    {ScoredMatch(id, pid, src) : id \in HitIds, pid \in HitPatentIds \cup {Absent}}

HitLists(src) ==
    UNION {{s \in [1 .. n -> Hits(src)] :
               \A i, j \in 1 .. n : i # j => s[i].id # s[j].id} : n \in 0 .. MaxLen}

ClaimHitLists ==
    {<<>>, <<ScoredMatch("X9-c1", "X9", "claim")>>,
     <<ScoredMatch("X9-c2", "X9", "claim"), ScoredMatch("X9-c1", "X9", "claim")>>}

\* to_scored_matches: r.get("id", ""), r.get("metadata", {})
to_scored_matches(hits) ==
    [i \in 1 .. Len(hits) |->
        [id |-> IF hits[i].id = Absent THEN "" ELSE hits[i].id,
         metadata |-> hits[i].metadata]]

\* Python truth value of a str or None: None and "" are false
Truthy(v) == v # Absent /\ v # ""

\* line 131: if m.metadata.get("patent_id")
HasPatentIdNotNone(m) == m.metadata.patent_id # Absent

HasPatentId(m) == Truthy(m.metadata.patent_id)

\* patent_ids = [m.metadata.get("patent_id") for m in fused_pat if m.metadata.get("patent_id")]
RECURSIVE ExtractPatentIds(_)
ExtractPatentIds(fused) ==
    IF Len(fused) = 0 THEN <<>>
    ELSE (IF HasPatentId(Head(fused))
          THEN <<Head(fused).metadata.patent_id>> ELSE <<>>)
         \o ExtractPatentIds(Tail(fused))

\* log entries
NoFilter == [level |-> NoConstraint, patent_id |-> NoConstraint]
CallEv(adapter, stage, filter, n) ==
    [ev |-> "call", adapter |-> adapter, stage |-> stage, filter |-> filter, top_k |-> n]
ReturnEv(adapter, stage) ==
    [ev |-> "return", adapter |-> adapter, stage |-> stage, filter |-> NoFilter, top_k |-> 0]
RaiseEv(adapter, stage) ==
    [ev |-> "raise", adapter |-> adapter, stage |-> stage, filter |-> NoFilter, top_k |-> 0]
FuseEv ==
    [ev |-> "fuse", adapter |-> "none", stage |-> "patent", filter |-> NoFilter, top_k |-> 0]

HierInputs ==
    /\ hpc = "start"
    /\ has_sparse \in BOOLEAN
    /\ query_text \in QueryTexts
    /\ base_filter \in BaseFilters
    /\ dense_pat = <<>>
    /\ sparse_pat = <<>>
    /\ fused_pat = <<>>
    /\ patent_ids = <<>>
    /\ result = <<>>
    /\ error = Absent
    /\ log = <<>>

\* line 106: if self.sparse and query_text
SparseWantedNotNone == has_sparse /\ query_text # Absent

SparseWanted == has_sparse /\ Truthy(query_text)

\* both patent searches are issued together (gathered) before either is awaited
StartPatentStageGather ==
    /\ hpc = "start"
    /\ log' = IF SparseWanted
              THEN Append(Append(log, CallEv("dense", "patent", PatentFilter(base_filter), dense_top_k)),
                          CallEv("sparse", "patent", PatentFilter(base_filter), sparse_top_k))
              ELSE Append(log, CallEv("dense", "patent", PatentFilter(base_filter), dense_top_k))
    /\ hpc' = "await_dense_patent"
    /\ UNCHANGED <<has_sparse, query_text, base_filter, dense_pat, sparse_pat,
                   fused_pat, patent_ids, result, error>>
    /\ UNCHANGED not_hier

\* lines 92-101: build patent_filter, await self.dense.search(...)
StartPatentStage ==
    /\ hpc = "start"
    /\ log' = Append(log, CallEv("dense", "patent", PatentFilter(base_filter), dense_top_k))
    /\ hpc' = "await_dense_patent"
    /\ UNCHANGED <<has_sparse, query_text, base_filter, dense_pat, sparse_pat,
                   fused_pat, patent_ids, result, error>>
    /\ UNCHANGED not_hier

\* lines 117-156: fuse, extract the patent ids, return [] or await the claim search
FuseAndContinue(dense_hits, sparse_hits, log_so_far) ==
    LET fused == fuse_rrf(to_scored_matches(dense_hits), to_scored_matches(sparse_hits),
                          rrf_k, patent_top_k)
        ids == ExtractPatentIds(fused)
    IN /\ fused_pat' = fused
       /\ patent_ids' = ids
       /\ IF ids = <<>>
          THEN /\ hpc' = "done"
               /\ result' = <<>>
               /\ log' = Append(log_so_far, FuseEv)
          ELSE /\ hpc' = "await_dense_claim"
               /\ result' = result
               /\ log' = Append(Append(log_so_far, FuseEv),
                                CallEv("dense", "claim", ClaimFilter(base_filter, ids), claim_top_k))

\* the claim search is issued as soon as the dense patent search returns, on
\* the patent ids of the dense hits: the sparse search, when issued, is not
\* awaited and nothing is fused
DensePatentReturnsNoWait ==
    /\ hpc = "await_dense_patent"
    /\ \E hits \in HitLists("dense") :
          LET ids == ExtractPatentIds(to_scored_matches(hits))
              log1 == IF SparseWanted
                      THEN Append(Append(log, ReturnEv("dense", "patent")),
                                  CallEv("sparse", "patent", PatentFilter(base_filter), sparse_top_k))
                      ELSE Append(log, ReturnEv("dense", "patent"))
          IN /\ dense_pat' = hits
             /\ patent_ids' = ids
             /\ IF ids = <<>>
                THEN /\ hpc' = "done"
                     /\ log' = log1
                ELSE /\ hpc' = "await_dense_claim"
                     /\ log' = Append(log1, CallEv("dense", "claim",
                                                   ClaimFilter(base_filter, ids), claim_top_k))
    /\ UNCHANGED <<has_sparse, query_text, base_filter, sparse_pat, fused_pat, result, error>>
    /\ UNCHANGED not_hier

\* lines 97-125: the dense patent search returns; then the sparse search is
\* awaited if self.sparse and query_text, else sparse_pat = [] and stage 1 ends
DensePatentReturns ==
    /\ hpc = "await_dense_patent"
    /\ \E hits \in HitLists("dense") :
          /\ dense_pat' = hits
          /\ IF SparseWanted
             THEN /\ log' = Append(Append(log, ReturnEv("dense", "patent")),
                                   CallEv("sparse", "patent", PatentFilter(base_filter), sparse_top_k))
                  /\ hpc' = "await_sparse_patent"
                  /\ UNCHANGED <<sparse_pat, fused_pat, patent_ids, result>>
             ELSE /\ sparse_pat' = <<>>
                  /\ FuseAndContinue(hits, <<>>, Append(log, ReturnEv("dense", "patent")))
    /\ UNCHANGED <<has_sparse, query_text, base_filter, error>>
    /\ UNCHANGED not_hier

\* lines 108-156: the sparse search returns; stage 1 ends
SparsePatentReturns ==
    /\ hpc = "await_sparse_patent"
    /\ \E hits \in HitLists("sparse") :
          /\ sparse_pat' = hits
          /\ FuseAndContinue(dense_pat, hits, Append(log, ReturnEv("sparse", "patent")))
    /\ UNCHANGED <<has_sparse, query_text, base_filter, dense_pat, error>>
    /\ UNCHANGED not_hier

\* lines 152-163: the claim search returns; its hits are returned
DenseClaimReturns ==
    /\ hpc = "await_dense_claim"
    /\ \E hits \in ClaimHitLists :
          /\ result' = to_scored_matches(hits)
    /\ log' = Append(log, ReturnEv("dense", "claim"))
    /\ hpc' = "done"
    /\ UNCHANGED <<has_sparse, query_text, base_filter, dense_pat, sparse_pat,
                   fused_pat, patent_ids, error>>
    /\ UNCHANGED not_hier

\* a failing sparse search is skipped: stage 1 goes on with the dense hits alone
AdapterRaisesFallback ==
    \/ /\ hpc = "await_sparse_patent"
       /\ sparse_pat' = <<>>
       /\ FuseAndContinue(dense_pat, <<>>, Append(log, RaiseEv("sparse", "patent")))
       /\ UNCHANGED <<has_sparse, query_text, base_filter, dense_pat, error>>
       /\ UNCHANGED not_hier
    \/ /\ hpc \in {"await_dense_patent", "await_dense_claim"}
       /\ log' = Append(log, RaiseEv("dense", IF hpc = "await_dense_claim" THEN "claim" ELSE "patent"))
       /\ error' = "dense"
       /\ hpc' = "failed"
       /\ UNCHANGED <<has_sparse, query_text, base_filter, dense_pat, sparse_pat,
                      fused_pat, patent_ids, result>>
       /\ UNCHANGED not_hier

\* an awaited adapter call raises: the exception leaves retrieve_claims_hierarchical
AdapterRaises ==
    /\ hpc \in {"await_dense_patent", "await_sparse_patent", "await_dense_claim"}
    /\ LET adapter == IF hpc = "await_sparse_patent" THEN "sparse" ELSE "dense"
           stage == IF hpc = "await_dense_claim" THEN "claim" ELSE "patent"
       IN /\ log' = Append(log, RaiseEv(adapter, stage))
          /\ error' = adapter
    /\ hpc' = "failed"
    /\ UNCHANGED <<has_sparse, query_text, base_filter, dense_pat, sparse_pat,
                   fused_pat, patent_ids, result>>
    /\ UNCHANGED not_hier

----------------------------------------------------------------------------
(* Python str operations, on TLA+ strings *)

CharAt(str, i) == SubSeq(str, i, i)

IsSpace(c) == c = " "

\* str.strip()
RECURSIVE LStrip(_)
LStrip(str) ==
    IF Len(str) > 0 /\ IsSpace(CharAt(str, 1))
    THEN LStrip(SubSeq(str, 2, Len(str))) ELSE str

RECURSIVE RStrip(_)
RStrip(str) ==
    IF Len(str) > 0 /\ IsSpace(CharAt(str, Len(str)))
    THEN RStrip(SubSeq(str, 1, Len(str) - 1)) ELSE str

Strip(str) == RStrip(LStrip(str))

\* str.find(c) and str.rfind(c) for a character c, 0-based, -1 when not found
Find(str, c) ==
    IF \E i \in 1 .. Len(str) : CharAt(str, i) = c
    THEN (CHOOSE i \in 1 .. Len(str) :
              CharAt(str, i) = c /\ \A j \in 1 .. i - 1 : CharAt(str, j) # c) - 1
    ELSE 0 - 1

RFind(str, c) ==
    IF \E i \in 1 .. Len(str) : CharAt(str, i) = c
    THEN (CHOOSE i \in 1 .. Len(str) :
              CharAt(str, i) = c /\ \A j \in i + 1 .. Len(str) : CharAt(str, j) # c) - 1
    ELSE 0 - 1

StartsWith(str, c) == Len(str) > 0 /\ CharAt(str, 1) = c
EndsWith(str, c) == Len(str) > 0 /\ CharAt(str, Len(str)) = c

----------------------------------------------------------------------------
(* Reranker *)

MaxItems == 3        \* longest list of items given to rerank
MaxCfg == 3          \* largest max_candidates and top_n tried
MaxRanked == 2       \* longest ranked_ids list the model answers

None == "<None>"     \* Python None

\* EvidenceItem, the fields rerank reads
EvidenceItem(chunk_id, patent_id, level, claim_no, text) ==
    [chunk_id |-> chunk_id, patent_id |-> patent_id, level |-> level,
     claim_no |-> claim_no, text |-> text]

\* the last two share one candidate id: the one has no chunk_id, the other
\* has the id the first falls back to
EvidenceItems ==
    {EvidenceItem("c1", "P1", "claim", 1, "t1"),
     EvidenceItem("c2", "P1", "claim", 2, "t2"),
     EvidenceItem("", "X9", "claim", 1, "t3"),
     EvidenceItem("X9:claim:1", "X9", "claim", None, "t4")}

ItemLists ==
    UNION {{s \in [1 .. n -> EvidenceItems] :
               \A i, j \in 1 .. n : i # j => s[i] # s[j]} : n \in 0 .. MaxItems}

\* RerankConfig: max_candidates and top_n (the defaults are 50 and 15)
RerankConfigs == [max_candidates : 0 .. MaxCfg, top_n : 0 .. MaxCfg]

\* str(x) in an f-string
Str(x) == IF x \in Int THEN ToString(x) ELSE IF x = None THEN "None" ELSE x

\* _candidate_id: item.chunk_id or f"{item.patent_id}:{item.level}:{item.claim_no}"
_candidate_id(item) ==
    IF item.chunk_id # ""
    THEN item.chunk_id
    ELSE item.patent_id \o ":" \o item.level \o ":" \o Str(item.claim_no)

(* JSON.  A JSON value is a record; Encode writes the text of an object     *)
(* and json.loads reads back the object texts that Encode can write; any    *)
(* other text is not valid JSON.                                            *)

JStr(v) == [t |-> "str", v |-> v]
JNum(v) == [t |-> "num", v |-> v]

EncodeElement(e) == IF e.t = "str" THEN "\"" \o e.v \o "\"" ELSE e.v

RECURSIVE EncodeList(_)
EncodeList(l) ==
    IF Len(l) = 0 THEN ""
    ELSE IF Len(l) = 1 THEN EncodeElement(l[1])
    ELSE EncodeElement(l[1]) \o ", " \o EncodeList(Tail(l))

Encode(doc) ==
    IF doc.kind = "list" THEN "{\"ranked_ids\": [" \o EncodeList(doc.ids) \o "]}"
    ELSE IF doc.kind = "not_list" THEN "{\"ranked_ids\": \"c1\"}"
    ELSE IF doc.kind = "missing_key" THEN "{\"ids\": [\"c1\"]}"
    ELSE "{}"

\* the ids a model names: candidate ids and one that matches no candidate
NamedIds == {JStr("c1"), JStr("c2"), JStr("X9:claim:1"), JStr("zz")}

NamedLists == UNION {[1 .. n -> NamedIds] : n \in 0 .. MaxRanked}

\* lists with elements that are padded, blank or not strings
OddLists ==
    {<<JStr(" c2 "), JStr("c1")>>, <<JStr("  ")>>, <<JNum("7")>>,
     <<JNum("7"), JStr("c1")>>, <<JStr("  "), JStr("c2")>>}

JsonDocs ==
    {[kind |-> "list", ids |-> l] : l \in NamedLists \cup OddLists}
      \cup {[kind |-> kd, ids |-> <<>>] : kd \in {"not_list", "missing_key", "empty_object"}}

JsonError == [kind |-> "error", ids |-> <<>>]

\* json.loads(text); JsonError stands for the exception
JsonLoads(text) ==
    IF \E doc \in JsonDocs : Encode(doc) = text
    THEN CHOOSE doc \in JsonDocs : Encode(doc) = text
    ELSE JsonError

(* What the model can answer: a text, and (never read by rerank) what the   *)
(* text is: its shape and the JSON document it was written from.            *)

Response(text, shape, doc) == [text |-> text, shape |-> shape, doc |-> doc]

ListDoc(l) == [kind |-> "list", ids |-> l]

Responses ==
    {Response(Encode(doc), "object", doc) : doc \in JsonDocs}
      \cup {Response("Here is the ranking: " \o Encode(ListDoc(<<JStr("c2"), JStr("c1")>>)) \o " Done.",
                     "object_in_prose", ListDoc(<<JStr("c2"), JStr("c1")>>)),
            Response("  " \o Encode(ListDoc(<<JStr("c2"), JStr("c1")>>)) \o "  ",
                     "object_in_prose", ListDoc(<<JStr("c2"), JStr("c1")>>)),
            Response(Encode(ListDoc(<<JStr("c2"), JStr("c1")>>)) \o " (ids as {given})",
                     "object_then_braces", ListDoc(<<JStr("c2"), JStr("c1")>>)),
            Response(Encode(ListDoc(<<JStr("c2"), JStr("c1")>>)) \o " " \o Encode(ListDoc(<<JStr("c1")>>)),
                     "object_then_braces", ListDoc(<<JStr("c2"), JStr("c1")>>)),
            Response("", "no_object", JsonError),
            Response("I cannot rank these.", "no_object", JsonError),
            Response("} {", "no_object", JsonError),
            Response("{", "no_object", JsonError),
            Response("{ranked_ids: c2, c1}", "invalid_json", JsonError),
            Response("{\"ranked_ids\": [\"c2\", ", "no_object", JsonError),
            Response("ranking {\"ranked_ids\": [\"c2\" } ", "invalid_json", JsonError)}

\* lines 160-163: the strings of the list that are not blank, stripped
RECURSIVE CleanIds(_)
CleanIds(ranked) ==
    IF Len(ranked) = 0 THEN <<>>
    ELSE (IF Head(ranked).t = "str" /\ Strip(Head(ranked).v) # ""
          THEN <<Strip(Head(ranked).v)>> ELSE <<>>)
         \o CleanIds(Tail(ranked))

\* lines 137-146: the text handed to json.loads, None when there is none
ObjText(raw) ==
    LET str == Strip(IF raw = None THEN "" ELSE raw)
        start == Find(str, "{")
        end == RFind(str, "}")
    IN IF StartsWith(str, "{") /\ EndsWith(str, "}") THEN str
       ELSE IF start # 0 - 1 /\ end # 0 - 1 /\ end > start
            THEN SubSeq(str, start + 1, end + 1)
            ELSE None

\* _parse_ranked_ids
_parse_ranked_ids(raw) ==
    LET obj_text == ObjText(raw)
    IN IF obj_text = None \/ obj_text = "" THEN <<>>
       ELSE LET data == JsonLoads(obj_text)
            IN IF data = JsonError THEN <<>>
               ELSE IF data.kind # "list" THEN <<>>
               ELSE CleanIds(data.ids)

\* by_id = {self._candidate_id(c): c for c in candidates}
RECURSIVE ById(_, _)
ById(cands, d) ==
    IF Len(cands) = 0 THEN d
    ELSE ById(Tail(cands), DictSet(d, _candidate_id(Head(cands)), Head(cands)))

\* lines 92-95: the candidates the model names, in the model's order
RECURSIVE Named(_, _)
Named(ranked, by_id) ==
    IF Len(ranked) = 0 THEN <<>>
    ELSE (IF DictHas(by_id, Head(ranked))
          THEN <<DictGet(by_id, Head(ranked), None)>> ELSE <<>>)
         \o Named(Tail(ranked), by_id)

\* lines 97-101: the candidates whose id is not in out yet are appended
AppendUnnamedNever(out, cands) == out

AppendUnnamed(out, cands) ==
    LET already == {_candidate_id(out[i]) : i \in 1 .. Len(out)}
    IN out \o SelectSeq(cands, LAMBDA c : _candidate_id(c) \notin already)

\* line 68: if len(candidates) <= 1
EarlyReturnOnlyEmpty(cands) == Len(cands) < 1

EarlyReturn(cands) == Len(cands) <= 1

\* line 87: return candidates[: self.cfg.top_n]
FallbackUntruncated(cands, cfg) == cands

Fallback(cands, cfg) == Slice(cands, cfg.top_n)

RerankInputs ==
    /\ rpc = "start"
    /\ reranker \in {"openai", "noop"}
    /\ rr_cfg \in RerankConfigs
    /\ items \in ItemLists
    /\ candidates = <<>>
    /\ llm_calls = 0
    /\ response = Response("", "none", JsonError)
    /\ ranked_ids = <<>>
    /\ rr_out = <<>>
    /\ rr_result = <<>>

\* no rerank runs: the reranker's variables rest
RerankIdle ==
    /\ rpc = "idle"
    /\ reranker = "noop"
    /\ rr_cfg = [max_candidates |-> 0, top_n |-> 0]
    /\ items = <<>>
    /\ candidates = <<>>
    /\ llm_calls = 0
    /\ response = Response("", "none", JsonError)
    /\ ranked_ids = <<>>
    /\ rr_out = <<>>
    /\ rr_result = <<>>

\* NoopReranker.rerank
NoopRerank ==
    /\ rpc = "start"
    /\ reranker = "noop"
    /\ candidates' = Slice(items, rr_cfg.max_candidates)
    /\ rr_result' = Slice(candidates', rr_cfg.top_n)
    /\ rpc' = "done"
    /\ UNCHANGED <<reranker, rr_cfg, items, llm_calls, response, ranked_ids, rr_out>>
    /\ UNCHANGED not_rerank

\* OpenAIReranker.rerank, lines 67-83: up to await self.llm.generate_text(...)
RerankStart ==
    /\ rpc = "start"
    /\ reranker = "openai"
    /\ candidates' = Slice(items, rr_cfg.max_candidates)
    /\ IF EarlyReturn(candidates')
       THEN /\ rr_result' = candidates'
            /\ rpc' = "done"
            /\ llm_calls' = llm_calls
       ELSE /\ rr_result' = rr_result
            /\ rpc' = "await_llm"
            /\ llm_calls' = llm_calls + 1
    /\ UNCHANGED <<reranker, rr_cfg, items, response, ranked_ids, rr_out>>
    /\ UNCHANGED not_rerank

\* OpenAIReranker.rerank, lines 83-103: the model's text arrives
LlmReturns ==
    /\ rpc = "await_llm"
    /\ \E resp \in Responses :
          LET ids == _parse_ranked_ids(resp.text)
              out == AppendUnnamed(Named(ids, ById(candidates, <<>>)), candidates)
          IN /\ response' = resp
             /\ ranked_ids' = ids
             /\ IF ids = <<>>
                THEN /\ rr_out' = rr_out
                     /\ rr_result' = Fallback(candidates, rr_cfg)
                ELSE /\ rr_out' = out
                     /\ rr_result' = Slice(out, rr_cfg.top_n)
    /\ rpc' = "done"
    /\ UNCHANGED <<reranker, rr_cfg, items, candidates, llm_calls>>
    /\ UNCHANGED not_rerank

\* llm.generate_text raises: the exception leaves rerank
LlmRaises ==
    /\ rpc = "await_llm"
    /\ rpc' = "failed"
    /\ UNCHANGED <<reranker, rr_cfg, items, candidates, llm_calls, response,
                   ranked_ids, rr_out, rr_result>>
    /\ UNCHANGED not_rerank

----------------------------------------------------------------------------
(* Evidence assembly: RAGOrchestrator._to_evidence_items and                *)
(* MongoDBStore.get_chunks_by_ids.  A Python dict is a function whose       *)
(* domain is the set of its keys.                                           *)

MaxMatches == 2      \* longest match list assembled

\* d.get(key, default)
Get(d, key, default) == IF key \in DOMAIN d THEN d[key] ELSE default

EmptyDict == <<>>

\* ids of vectors; the index gives no vector an empty id
MatchIds == {"k1", "k2"}

\* match.metadata: all fields, none, snippet without text, neither
Metadatas ==
    {[text |-> "m-text", snippet |-> "m-snip", patent_id |-> "P1",
      level |-> "claim", title |-> "m-title", claim_no |-> 1],
     EmptyDict,
     [snippet |-> "m-snip", level |-> "patent"],
     [patent_id |-> "P1", title |-> "m-title"]}

AssembleMatches == [id : MatchIds, score : {1}, metadata : Metadatas]

MatchLists == UNION {[1 .. n -> AssembleMatches] : n \in 0 .. MaxMatches}

\* what a document of the collection holds besides its "id": the fields of
\* a chunk record, a document with a section, a document without text
DocBodies ==
    {[text |-> "d-text", patent_id |-> "P2", level |-> "limitation",
      title |-> "d-title", claim_no |-> 2],
     [text |-> "d-text2", section |-> "description", patent_id |-> "P2"],
     [snippet |-> "d-snip"]}

Doc(id, body) ==
    [key \in {"id"} \cup DOMAIN body |-> IF key = "id" THEN id ELSE body[key]]

AllDocs == {Doc(id, body) : id \in MatchIds, body \in DocBodies}

\* the collection: a set of documents, no two with the same "id"
Collections ==
    {c \in SUBSET AllDocs : \A d1, d2 \in c : d1.id = d2.id => d1 = d2}

Sources == {"hybrid", "dense"}

\* line 211: chunk_ids = [match.id for match in matches]
ChunkIds(ms) == [i \in 1 .. Len(ms) |-> ms[i].id]

\* a query sent to the collection: find with $in, or find_one
FindIn(chunk_ids) == [op |-> "find", ids |-> chunk_ids]
FindOne(chunk_id) == [op |-> "find_one", ids |-> <<chunk_id>>]

\* get_chunks_by_ids, lines 96-110: the documents found, by their id
ChunksMap(coll, chunk_ids) ==
    LET cursor == {doc \in coll : \E i \in 1 .. Len(chunk_ids) : chunk_ids[i] = doc.id}
        kept == {doc \in cursor : Truthy(Get(doc, "id", Absent))}
    IN [id \in {doc.id : doc \in kept} |-> CHOOSE doc \in kept : doc.id = id]

\* line 228, without the snippet
TextOfNoSnippet(chunk_doc, metadata) ==
    Get(chunk_doc, "text", Get(metadata, "text", ""))

\* line 228
TextOf(chunk_doc, metadata) ==
    Get(chunk_doc, "text", Get(metadata, "text", Get(metadata, "snippet", "")))

\* lines 225-242: the EvidenceItem of one match
EvidenceOf(match, cmap, src) ==
    LET metadata == match.metadata
        chunk_id == match.id
        chunk_doc == Get(cmap, chunk_id, EmptyDict)
    IN [chunk_id |-> chunk_id,
        patent_id |-> Get(metadata, "patent_id", Get(chunk_doc, "patent_id", "")),
        level |-> Get(metadata, "level", Get(chunk_doc, "section", "claim")),
        title |-> Get(metadata, "title", Get(chunk_doc, "title", None)),
        claim_no |-> Get(metadata, "claim_no", Get(chunk_doc, "claim_no", None)),
        text |-> TextOf(chunk_doc, metadata),
        score |-> match.score,
        source |-> src,
        metadata |-> metadata]

AssembleInputs ==
    /\ apc = "start"
    /\ matches \in MatchLists
    /\ source \in Sources
    /\ collection \in Collections
    /\ lookups = <<>>
    /\ chunks_map = EmptyDict
    /\ evidence = <<>>

\* no evidence assembly runs: its variables rest
AssembleIdle ==
    /\ apc = "idle"
    /\ matches = <<>>
    /\ source = "hybrid"
    /\ collection = {}
    /\ lookups = <<>>
    /\ chunks_map = EmptyDict
    /\ evidence = <<>>

\* lines 206-215 with one find_one for each match instead of the batch
AssembleStartPerMatch ==
    /\ apc = "start"
    /\ IF Len(matches) = 0
       THEN /\ apc' = "done"
            /\ lookups' = lookups
       ELSE /\ apc' = "await_store"
            /\ lookups' = lookups \o [i \in 1 .. Len(matches) |-> FindOne(matches[i].id)]
    /\ UNCHANGED <<matches, source, collection, chunks_map, evidence>>
    /\ UNCHANGED not_assemble

\* _to_evidence_items, lines 206-215, and get_chunks_by_ids, lines 91-96: no
\* matches, nothing to do; else one find for all the ids
AssembleStart ==
    /\ apc = "start"
    /\ IF Len(matches) = 0
       THEN /\ apc' = "done"
            /\ lookups' = lookups
       ELSE /\ apc' = "await_store"
            /\ lookups' = Append(lookups, FindIn(ChunkIds(matches)))
    /\ UNCHANGED <<matches, source, collection, chunks_map, evidence>>
    /\ UNCHANGED not_assemble

\* get_chunks_by_ids, lines 98-110, and _to_evidence_items, lines 215-245:
\* the documents arrive and the evidence items are built
StoreReturns ==
    /\ apc = "await_store"
    /\ chunks_map' = ChunksMap(collection, ChunkIds(matches))
    /\ evidence' = [i \in 1 .. Len(matches) |-> EvidenceOf(matches[i], chunks_map', source)]
    /\ apc' = "done"
    /\ UNCHANGED <<matches, source, collection, lookups>>
    /\ UNCHANGED not_assemble

\* the query to the collection raises: the exception leaves _to_evidence_items
StoreRaises ==
    /\ apc = "await_store"
    /\ apc' = "store_failed"
    /\ UNCHANGED <<matches, source, collection, lookups, chunks_map, evidence>>
    /\ UNCHANGED not_assemble

----------------------------------------------------------------------------
(* Retry loops: GeminiClient.generate_text with _with_retries, and          *)
(* OpenAIEmbedder.embed with _embed_batch_with_retries                      *)

MaxRetries == 3      \* largest cfg.max_retries tried (the constructors reject <= 0)

Clients == {"generator", "embedder"}

\* the prompt of generate_text, the text of embed
CallTexts == {Absent, "", "   ", " q ", "fuel cell"}

\* not prompt or not prompt.strip()
Blank(str) == IF Truthy(str) THEN Strip(str) = "" ELSE TRUE

\* 2 ** n
RECURSIVE Pow2(_)
Pow2(n) == IF n = 0 THEN 1 ELSE 2 * Pow2(n - 1)

\* the sleep after a failed attempt, in units of backoff_base_seconds
Backoff(n) == Pow2(n - 1)

\* range(1, max_retries + 1) is exhausted after this attempt
LastAttemptOneMore(n, limit) == n >= limit + 1

LastAttempt(n, limit) == n >= limit

RetryInputs ==
    /\ retry_pc = "start"
    /\ client \in Clients
    /\ max_retries \in 1 .. MaxRetries
    /\ call_text \in CallTexts
    /\ attempt = 0
    /\ attempts = <<>>
    /\ sleeps = <<>>
    /\ outcome = "none"

\* no generate_text or embed runs: the retry variables rest
RetryIdle ==
    /\ retry_pc = "idle"
    /\ client = "generator"
    /\ max_retries = 1
    /\ call_text = Absent
    /\ attempt = 0
    /\ attempts = <<>>
    /\ sleeps = <<>>
    /\ outcome = "none"

\* generate_text, client.py:91-92, and embed, embed.py:64-65: a blank prompt
\* or text raises ValueError; else the retry loop starts with attempt 1
CallStarts ==
    /\ retry_pc = "start"
    /\ IF Blank(call_text)
       THEN /\ outcome' = "ValueError"
            /\ retry_pc' = "raised"
            /\ attempt' = attempt
       ELSE /\ outcome' = outcome
            /\ retry_pc' = "attempt"
            /\ attempt' = 1
    /\ UNCHANGED <<client, max_retries, call_text, attempts, sleeps>>
    /\ UNCHANGED not_retry

\* the provider call of this attempt returns: its result is returned
AttemptSucceeds ==
    /\ retry_pc = "attempt"
    /\ attempts' = Append(attempts, "ok")
    /\ outcome' = "value"
    /\ retry_pc' = "returned"
    /\ UNCHANGED <<client, max_retries, call_text, attempt, sleeps>>
    /\ UNCHANGED not_retry

\* the provider call of this attempt raises: sleep, then the next attempt, or
\* RuntimeError when the range is exhausted
AttemptFails ==
    /\ retry_pc = "attempt"
    /\ attempts' = Append(attempts, "fail")
    /\ sleeps' = Append(sleeps, Backoff(attempt))
    /\ IF LastAttempt(attempt, max_retries)
       THEN /\ outcome' = "RuntimeError"
            /\ retry_pc' = "raised"
            /\ attempt' = attempt
       ELSE /\ outcome' = outcome
            /\ retry_pc' = "attempt"
            /\ attempt' = attempt + 1
    /\ UNCHANGED <<client, max_retries, call_text>>
    /\ UNCHANGED not_retry

----------------------------------------------------------------------------
(* DenseRetriever.search and PineconeStore.query.  The store's query is     *)
(* entered either from DenseRetriever._run or directly, with the keyword    *)
(* arguments of its signature.                                              *)

Entries == {"DenseRetriever.search", "PineconeStore.query"}

DenseVectors == {<<>>, <<1, 2>>}

DenseTopKs == -1 .. MaxTopK

\* metadata_filter
DenseFilters ==
    {EmptyDict, [level |-> "patent"], [level |-> "claim"], [level |-> "limitation"],
     [level |-> "claim", patent_id |-> "X9"]}

Levels == {None, "patent", "claim", "limitation"}

\* the parameters of PineconeStore.query, pinecone.py:111-120
QueryParams == {"dense", "top_k", "alpha", "metadata_filter", "include_metadata", "level"}

\* the keyword arguments of the call in DenseRetriever._run, dense.py:38-45
RunKeywords == {"dense", "sparse", "top_k", "alpha", "metadata_filter", "level"}

\* the keyword arguments of a direct call
DirectKeywords == {"dense", "top_k", "alpha", "metadata_filter", "level"}

\* what index.query answers: res.matches (None, or a list), each match with
\* its metadata (None, or a dict)
IndexMatch(id, score, metadata, metadata_is_none) ==
    [id |-> id, score |-> score, metadata |-> metadata, metadata_is_none |-> metadata_is_none]

IndexAnswers ==
    {[is_none |-> TRUE, matches |-> <<>>],
     [is_none |-> FALSE, matches |-> <<>>],
     [is_none |-> FALSE,
      matches |-> <<IndexMatch("v1", 9, [patent_id |-> "X9"], FALSE),
                    IndexMatch("v2", 8, EmptyDict, TRUE)>>]}

\* pinecone.py:156-158: one dict per match of res.matches or [], with
\* m.metadata or {}
MatchDicts(answer) ==
    LET ms == IF answer.is_none THEN <<>> ELSE answer.matches
    IN [i \in 1 .. Len(ms) |->
           [id |-> ms[i].id, score |-> ms[i].score,
            metadata |-> IF ms[i].metadata_is_none THEN EmptyDict ELSE ms[i].metadata]]

\* _get_index: the index of the level, or none (ValueError)
KnownLevel(lv) == lv \in {"patent", "claim"}

\* the query sent to an index: pinecone.py:145-154
IndexQuery(lv, n, filter) ==
    [index |-> lv, top_k |-> n, has_filter |-> DOMAIN filter # {}, filter |-> filter]

DenseInputs ==
    /\ dpc = "start"
    /\ entry \in Entries
    /\ dense_vector \in DenseVectors
    /\ d_top_k \in DenseTopKs
    /\ metadata_filter \in DenseFilters
    /\ d_level \in (IF entry = "PineconeStore.query" THEN Levels ELSE {None})
    /\ index_queries = <<>>
    /\ d_outcome = "none"
    /\ d_result = <<>>

\* no dense search runs: its variables rest
DenseIdle ==
    /\ dpc = "idle"
    /\ entry = "PineconeStore.query"
    /\ dense_vector = <<>>
    /\ d_top_k = 0
    /\ metadata_filter = EmptyDict
    /\ d_level = None
    /\ index_queries = <<>>
    /\ d_outcome = "none"
    /\ d_result = <<>>

\* the call of PineconeStore.query: the keyword arguments are bound to the
\* parameters (TypeError for a keyword that is no parameter), then
\* pinecone.py:135-154 up to index.query
QueryCalled ==
    /\ dpc = "start"
    /\ LET keywords == IF entry = "DenseRetriever.search" THEN RunKeywords ELSE DirectKeywords
           lv == IF entry = "DenseRetriever.search"
                 THEN Get(metadata_filter, "level", None) ELSE d_level
       IN IF keywords \ QueryParams # {}
          THEN /\ d_outcome' = "TypeError"
               /\ dpc' = "raised"
               /\ index_queries' = index_queries
          ELSE IF dense_vector = <<>> \/ d_top_k <= 0 \/ ~KnownLevel(lv)
          THEN /\ d_outcome' = "ValueError"
               /\ dpc' = "raised"
               /\ index_queries' = index_queries
          ELSE /\ d_outcome' = d_outcome
               /\ dpc' = "await_index"
               /\ index_queries' = Append(index_queries, IndexQuery(lv, d_top_k, metadata_filter))
    /\ UNCHANGED <<entry, dense_vector, d_top_k, metadata_filter, d_level, d_result>>
    /\ UNCHANGED not_dense

\* index.query returns: pinecone.py:154-164
IndexReturns ==
    /\ dpc = "await_index"
    /\ \E answer \in IndexAnswers : d_result' = MatchDicts(answer)
    /\ d_outcome' = "matches"
    /\ dpc' = "returned"
    /\ UNCHANGED <<entry, dense_vector, d_top_k, metadata_filter, d_level, index_queries>>
    /\ UNCHANGED not_dense

\* index.query raises: the exception leaves query
IndexRaises ==
    /\ dpc = "await_index"
    /\ d_outcome' = "IndexError"
    /\ dpc' = "raised"
    /\ UNCHANGED <<entry, dense_vector, d_top_k, metadata_filter, d_level, index_queries, d_result>>
    /\ UNCHANGED not_dense

----------------------------------------------------------------------------
(* ElasticsearchStore._build_filter_clauses.  The filter is a dict in       *)
(* insertion order: a sequence of items (key, value); a value is a plain    *)
(* value or a dict of operators.                                            *)

MaxFilterKeys == 2   \* most keys of a metadata filter

FilterKeys == {"year", "level"}

Operators == {"$gte", "$lte", "$gt", "$lt", "$in", "$ne"}

RangeOperators == {"$gte", "$lte", "$gt", "$lt"}

\* the operand each operator is given
Operand(op) ==
    IF op = "$in" THEN <<2001, 2002>>
    ELSE IF op = "$gte" THEN 2000
    ELSE IF op = "$lte" THEN 2020
    ELSE IF op = "$gt" THEN 1999
    ELSE IF op = "$lt" THEN 2021
    ELSE 7

PlainValue(v) == [is_dict |-> FALSE, plain |-> v, ops |-> EmptyDict]
DictValue(ops) == [is_dict |-> TRUE, plain |-> "", ops |-> ops]

FilterValues ==
    {PlainValue("claim")} \cup
    {DictValue([op \in S |-> Operand(op)]) : S \in SUBSET Operators}

FilterItem(key, value) == [key |-> key, value |-> value]

SparseFilters ==
    UNION {{f \in [1 .. n -> {FilterItem(key, v) : key \in FilterKeys, v \in FilterValues}] :
               \A i, j \in 1 .. n : i # j => f[i].key # f[j].key} : n \in 0 .. MaxFilterKeys}

\* "$gte" -> "gte"
BoundName(op) == SubSeq(op, 2, Len(op))

\* lines 194-202: the bounds of the range clause
RangeFilter(ops) ==
    [b \in {BoundName(op) : op \in RangeOperators \cap DOMAIN ops} |-> ops["$" \o b]]

Clause(type, field, range, terms, term) ==
    [type |-> type, field |-> field, range |-> range, terms |-> terms, term |-> term]

\* lines 191-211: the clauses of one item
ClausesOf(item) ==
    IF item.value.is_dict
    THEN IF RangeOperators \cap DOMAIN item.value.ops # {}
         THEN <<Clause("range", item.key, RangeFilter(item.value.ops), <<>>, "")>>
         ELSE IF "$in" \in DOMAIN item.value.ops
         THEN <<Clause("terms", item.key, EmptyDict, item.value.ops["$in"], "")>>
         ELSE <<>>
    ELSE <<Clause("term", item.key, EmptyDict, <<>>, item.value.plain)>>

\* _build_filter_clauses
RECURSIVE _build_filter_clauses(_)
_build_filter_clauses(filter) ==
    IF Len(filter) = 0 THEN <<>>
    ELSE ClausesOf(Head(filter)) \o _build_filter_clauses(Tail(filter))

FilterInputs ==
    /\ bpc = "start"
    /\ sparse_filter \in SparseFilters
    /\ filter_clauses = <<>>

\* no filter is being translated
FilterIdle ==
    /\ bpc = "idle"
    /\ sparse_filter = <<>>
    /\ filter_clauses = <<>>

BuildFilterClauses ==
    /\ bpc = "start"
    /\ filter_clauses' = _build_filter_clauses(sparse_filter)
    /\ bpc' = "done"
    /\ UNCHANGED sparse_filter
    /\ UNCHANGED not_filter

----------------------------------------------------------------------------
(* The pipeline: RAGOrchestrator.query.  Its evidence assembly is the       *)
(* _to_evidence_items modelled above, run on the candidates; the embedder,  *)
(* the hierarchical retriever and the generative model are awaited calls    *)
(* that return or raise.                                                    *)

MaxCandidates == 3   \* longest candidate list the retrieval returns
MaxFinalTopN == 3    \* largest policy.final_top_n tried

\* the query string
Queries == {"", "fuel cell"}

\* RagPolicy.final_top_n (the default is 8)
FinalTopNs == 0 .. MaxFinalTopN

\* the argument mode: one with its own instructions, one without
Modes == {"prior_art", "summary"}

\* the candidates of the hierarchical retrieval
Candidates == [id : MatchIds, score : {1}, metadata : {EmptyDict}]

CandidateLists == UNION {[1 .. n -> Candidates] : n \in 0 .. MaxCandidates}

\* the return value of _generate_answer without evidence, line 258
NoEvidenceAnswer == "No relevant patents found for your query."

\* what the generative model answers
LlmAnswers == {"", "Patent P1 is relevant."}

\* the stages query runs, by the step comments and log lines of lines 116-149
Started(stage) == [stage |-> stage, event |-> "started"]
Completed(stage) == [stage |-> stage, event |-> "completed"]

\* QueryResponse(mode=mode, answer=answer, evidence=evidence_items)
QueryResponse(md, ans, ev) == [mode |-> md, answer |-> ans, evidence |-> ev]

\* nothing returned yet
NoResponse == QueryResponse(None, None, <<>>)

QueryInputs ==
    /\ qpc = "start"
    /\ query \in Queries
    /\ mode \in Modes
    /\ final_top_n \in FinalTopNs
    /\ q_candidates = <<>>
    /\ evidence_items = <<>>
    /\ stages = <<>>
    /\ generate_calls = <<>>
    /\ q_response = NoResponse
    /\ q_outcome = "none"
    /\ apc = "idle"
    /\ matches = <<>>
    /\ source = "hybrid"
    /\ collection \in Collections
    /\ lookups = <<>>
    /\ chunks_map = EmptyDict
    /\ evidence = <<>>

\* no query runs: the pipeline variables rest
QueryIdle ==
    /\ qpc = "idle"
    /\ query = ""
    /\ mode = "prior_art"
    /\ final_top_n = 0
    /\ q_candidates = <<>>
    /\ evidence_items = <<>>
    /\ stages = <<>>
    /\ generate_calls = <<>>
    /\ q_response = NoResponse
    /\ q_outcome = "none"

\* query, lines 114-118, and _encode_query: the embedder is called
QueryStarts ==
    /\ qpc = "start"
    /\ stages' = Append(stages, Started("encode"))
    /\ qpc' = "await_embed"
    /\ UNCHANGED <<query, mode, final_top_n, q_candidates, evidence_items,
                   generate_calls, q_response, q_outcome>>
    /\ UNCHANGED not_query

\* lines 118-127: the embedder returns the vector (it returns none for a
\* blank text, embed.py:64-65) and the hierarchical retrieval is called
EncodeReturns ==
    /\ qpc = "await_embed"
    /\ ~Blank(query)
    /\ stages' = stages \o <<Completed("encode"), Started("retrieve")>>
    /\ qpc' = "await_retrieve"
    /\ UNCHANGED <<query, mode, final_top_n, q_candidates, evidence_items,
                   generate_calls, q_response, q_outcome>>
    /\ UNCHANGED not_query

\* the embedder raises: the exception leaves query
EncodeRaises ==
    /\ qpc = "await_embed"
    /\ q_outcome' = "raised"
    /\ qpc' = "raised"
    /\ UNCHANGED <<query, mode, final_top_n, q_candidates, evidence_items, stages,
                   generate_calls, q_response>>
    /\ UNCHANGED not_query

\* lines 123-132: the retrieval returns the candidates and _to_evidence_items
\* is called with them and source="hybrid"
RetrieveReturns ==
    /\ qpc = "await_retrieve"
    /\ \E found \in CandidateLists :
          /\ q_candidates' = found
          /\ matches' = found
    /\ source' = "hybrid"
    /\ apc' = "start"
    /\ stages' = stages \o <<Completed("retrieve"), Started("assemble")>>
    /\ qpc' = "await_evidence"
    /\ UNCHANGED <<query, mode, final_top_n, evidence_items, generate_calls,
                   q_response, q_outcome>>
    /\ UNCHANGED <<collection, lookups, chunks_map, evidence>>
    /\ UNCHANGED <<fvars, hvars, rvars, yvars, dvars, bvars>>

\* the retrieval raises: the exception leaves query
RetrieveRaises ==
    /\ qpc = "await_retrieve"
    /\ q_outcome' = "raised"
    /\ qpc' = "raised"
    /\ UNCHANGED <<query, mode, final_top_n, q_candidates, evidence_items, stages,
                   generate_calls, q_response>>
    /\ UNCHANGED not_query

\* lines 132-144: _to_evidence_items returned; no rerank step runs (lines
\* 135-139 are comments); the evidence is cut to final_top_n
ApplyPolicy ==
    /\ qpc = "await_evidence"
    /\ apc = "done"
    /\ evidence_items' = Slice(evidence, final_top_n)
    /\ stages' = stages \o <<Completed("assemble"), Started("truncate"),
                             Completed("truncate")>>
    /\ qpc' = "generate"
    /\ UNCHANGED <<query, mode, final_top_n, q_candidates, generate_calls,
                   q_response, q_outcome>>
    /\ UNCHANGED not_query

\* the document store raised in _to_evidence_items: the exception leaves query
EvidenceRaises ==
    /\ qpc = "await_evidence"
    /\ apc = "store_failed"
    /\ q_outcome' = "raised"
    /\ qpc' = "raised"
    /\ UNCHANGED <<query, mode, final_top_n, q_candidates, evidence_items, stages,
                   generate_calls, q_response>>
    /\ UNCHANGED not_query

\* lines 148 and 256-309 with the model called whether or not there is evidence
GenerateAnswerAlwaysCalls ==
    /\ qpc = "generate"
    /\ generate_calls' = Append(generate_calls, Len(evidence_items))
    /\ stages' = Append(stages, Started("generate"))
    /\ qpc' = "await_llm"
    /\ q_response' = q_response
    /\ q_outcome' = q_outcome
    /\ UNCHANGED <<query, mode, final_top_n, q_candidates, evidence_items>>
    /\ UNCHANGED not_query

\* lines 148-159 and _generate_answer, lines 256-309: without evidence the
\* fixed answer is returned and the response built; else the generative
\* model is called with a prompt over the evidence
GenerateAnswer ==
    /\ qpc = "generate"
    /\ IF Len(evidence_items) = 0
       THEN /\ generate_calls' = generate_calls
            /\ stages' = stages \o <<Started("generate"), Completed("generate")>>
            /\ q_response' = QueryResponse(mode, NoEvidenceAnswer, evidence_items)
            /\ q_outcome' = "returned"
            /\ qpc' = "returned"
       ELSE /\ generate_calls' = Append(generate_calls, Len(evidence_items))
            /\ stages' = Append(stages, Started("generate"))
            /\ q_response' = q_response
            /\ q_outcome' = q_outcome
            /\ qpc' = "await_llm"
    /\ UNCHANGED <<query, mode, final_top_n, q_candidates, evidence_items>>
    /\ UNCHANGED not_query

\* lines 306-312 and 148-159: the model answers and the response is built
AnswerReturns ==
    /\ qpc = "await_llm"
    /\ \E ans \in LlmAnswers :
          q_response' = QueryResponse(mode, ans, evidence_items)
    /\ stages' = Append(stages, Completed("generate"))
    /\ q_outcome' = "returned"
    /\ qpc' = "returned"
    /\ UNCHANGED <<query, mode, final_top_n, q_candidates, evidence_items, generate_calls>>
    /\ UNCHANGED not_query

\* the call of the model raises: the exception leaves query
AnswerRaises ==
    /\ qpc = "await_llm"
    /\ q_outcome' = "raised"
    /\ qpc' = "raised"
    /\ UNCHANGED <<query, mode, final_top_n, q_candidates, evidence_items, stages,
                   generate_calls, q_response>>
    /\ UNCHANGED not_query

----------------------------------------------------------------------------
(* Specification of fusion runs: inputs are drawn, fuse_rrf is applied to   *)
(* (dense, sparse) and then to the swapped pair.                            *)

FusionInputs ==
    /\ fpc = "input"
    /\ dense_results \in ResultLists("dense")
    /\ sparse_results \in ResultLists("sparse")
    /\ k \in RrfKs
    /\ top_k \in TopKs
    /\ results = <<>>
    /\ swapped = <<>>

\* no fusion run: the fusion variables rest
FusionIdle ==
    /\ fpc = "idle"
    /\ dense_results = <<>>
    /\ sparse_results = <<>>
    /\ k = rrf_k
    /\ top_k = patent_top_k
    /\ results = <<>>
    /\ swapped = <<>>

\* no retrieval runs: the retriever's variables rest
HierIdle ==
    /\ hpc = "idle"
    /\ has_sparse = FALSE
    /\ query_text = Absent
    /\ base_filter = NoFilter
    /\ dense_pat = <<>>
    /\ sparse_pat = <<>>
    /\ fused_pat = <<>>
    /\ patent_ids = <<>>
    /\ result = <<>>
    /\ error = Absent
    /\ log = <<>>

Fuse ==
    /\ fpc = "input"
    /\ results' = fuse_rrf(dense_results, sparse_results, k, top_k)
    /\ fpc' = "fused"
    /\ UNCHANGED <<dense_results, sparse_results, k, top_k, swapped>>
    /\ UNCHANGED not_fusion

FuseSwapped ==
    /\ fpc = "fused"
    /\ swapped' = fuse_rrf(sparse_results, dense_results, k, top_k)
    /\ fpc' = "swapped"
    /\ UNCHANGED <<dense_results, sparse_results, k, top_k, results>>
    /\ UNCHANGED not_fusion

FusionNext == Fuse \/ FuseSwapped

FusionInit == FusionInputs /\ HierIdle /\ RerankIdle /\ AssembleIdle /\ RetryIdle /\ DenseIdle /\ FilterIdle /\ QueryIdle

SpecFusion == FusionInit /\ [][FusionNext]_vars

(* Specification of one invocation of retrieve_claims_hierarchical *)

HierInit == HierInputs /\ FusionIdle /\ RerankIdle /\ AssembleIdle /\ RetryIdle /\ DenseIdle /\ FilterIdle /\ QueryIdle

HierNext ==
    \/ StartPatentStage
    \/ DensePatentReturns
    \/ SparsePatentReturns
    \/ DenseClaimReturns
    \/ AdapterRaises

SpecHier == HierInit /\ [][HierNext]_vars

(* Specification of one call of rerank *)

RerankInit == RerankInputs /\ FusionIdle /\ HierIdle /\ AssembleIdle /\ RetryIdle /\ DenseIdle /\ FilterIdle /\ QueryIdle

RerankNext ==
    \/ NoopRerank
    \/ RerankStart
    \/ LlmReturns
    \/ LlmRaises

SpecRerank == RerankInit /\ [][RerankNext]_vars

(* Specification of one call of _to_evidence_items *)

AssembleInit == AssembleInputs /\ FusionIdle /\ HierIdle /\ RerankIdle /\ RetryIdle /\ DenseIdle /\ FilterIdle /\ QueryIdle

AssembleNext ==
    \/ AssembleStart
    \/ StoreReturns
    \/ StoreRaises

SpecAssemble == AssembleInit /\ [][AssembleNext]_vars

(* Specification of one call of generate_text or embed *)

RetryInit == RetryInputs /\ FusionIdle /\ HierIdle /\ RerankIdle /\ AssembleIdle /\ DenseIdle /\ FilterIdle /\ QueryIdle

RetryNext ==
    \/ CallStarts
    \/ AttemptSucceeds
    \/ AttemptFails

SpecRetry == RetryInit /\ [][RetryNext]_vars

(* Specification of one dense search *)

DenseInit == DenseInputs /\ FusionIdle /\ HierIdle /\ RerankIdle /\ AssembleIdle /\ RetryIdle /\ FilterIdle /\ QueryIdle

DenseNext ==
    \/ QueryCalled
    \/ IndexReturns
    \/ IndexRaises

SpecDense == DenseInit /\ [][DenseNext]_vars

(* Specification of one call of _build_filter_clauses *)

FilterInit == FilterInputs /\ FusionIdle /\ HierIdle /\ RerankIdle /\ AssembleIdle /\ RetryIdle /\ DenseIdle /\ QueryIdle

FilterNext == BuildFilterClauses

SpecFilter == FilterInit /\ [][FilterNext]_vars

(* Specification of one call of RAGOrchestrator.query *)

QueryInit == QueryInputs /\ FusionIdle /\ HierIdle /\ RerankIdle /\ RetryIdle /\ DenseIdle /\ FilterIdle

QueryNext ==
    \/ QueryStarts
    \/ EncodeReturns
    \/ EncodeRaises
    \/ RetrieveReturns
    \/ RetrieveRaises
    \/ AssembleStart
    \/ StoreReturns
    \/ StoreRaises
    \/ ApplyPolicy
    \/ EvidenceRaises
    \/ GenerateAnswer
    \/ AnswerReturns
    \/ AnswerRaises

SpecQuery == QueryInit /\ [][QueryNext]_vars

\* the code between two awaits runs to the next await or to the return
SpecQueryFair ==
    /\ SpecQuery
    /\ WF_vars(AssembleStart)
    /\ WF_vars(ApplyPolicy)
    /\ WF_vars(GenerateAnswer)

----------------------------------------------------------------------------
(* Vocabulary of the fusion properties, stated on the inputs and outputs    *)
(* of fuse_rrf only.                                                        *)

\* the join key of a match: its patent_id metadata, its id when it has none
KeyOf(m) == IF m.metadata.patent_id = Absent THEN m.id ELSE m.metadata.patent_id

KeysOf(list) == {KeyOf(list[i]) : i \in 1 .. Len(list)}

\* the ranks (1-based positions) at which key occurs in list
RanksOf(list, key) == {i \in 1 .. Len(list) : KeyOf(list[i]) = key}

IdsOf(list) == {list[i].id : i \in 1 .. Len(list)}

AllKeys == KeysOf(dense_results) \cup KeysOf(sparse_results)

\* the entries of an output that carry key
EntriesOf(out, key) == {i \in 1 .. Len(out) : out[i].id = key}

\* the ids of an output, in order
OutputIds(out) == [i \in 1 .. Len(out) |-> out[i].id]

\* top_k truncates nothing
NotTruncated == top_k >= Cardinality(AllKeys)

\* an entry's score is the sum of the rank terms 1/(k + r) over ranks
RECURSIVE SumOfTerms(_)
SumOfTerms(ranks) ==
    IF ranks = {} THEN 0
    ELSE LET r == CHOOSE x \in ranks : TRUE
         IN Scale(k) \div (k + r) + SumOfTerms(ranks \ {r})

\* position at which key is first met reading the dense list, then the sparse
FirstSeen(key) ==
    LET all == dense_results \o sparse_results
    IN CHOOSE i \in 1 .. Len(all) :
           /\ KeyOf(all[i]) = key
           /\ \A j \in 1 .. i - 1 : KeyOf(all[j]) # key

Fused == fpc \in {"fused", "swapped"}

----------------------------------------------------------------------------
(* C1 *)

\* C1 as stated: a join key that occurs in exactly one of the two lists, at
\* rank r, has exactly one output entry once nothing is truncated, with score
\* exactly 1/(k + r).
C1_AsStated ==
    Fused =>
        \A key \in AllKeys : \A r \in 1 .. MaxLen :
            ( \/ /\ RanksOf(dense_results, key) = {r}
                 /\ RanksOf(sparse_results, key) = {}
              \/ /\ RanksOf(sparse_results, key) = {r}
                 /\ RanksOf(dense_results, key) = {} )
            => /\ \A i \in EntriesOf(results, key) : results[i].score * (k + r) = Scale(k)
               /\ NotTruncated => EntriesOf(results, key) # {}

\* C1 amended: a join key carried by exactly one sparse match (rank r) and by
\* no dense match scores exactly 1/(k + r) and is in the output once nothing is
\* truncated; a join key carried by dense matches only is absent from the
\* output.
C1_SingleListScore ==
    Fused =>
        \A key \in AllKeys :
            /\ \A r \in 1 .. MaxLen :
                  ( /\ RanksOf(sparse_results, key) = {r}
                    /\ RanksOf(dense_results, key) = {} )
                  => /\ \A i \in EntriesOf(results, key) :
                            results[i].score * (k + r) = Scale(k)
                     /\ NotTruncated => EntriesOf(results, key) # {}
            /\ RanksOf(sparse_results, key) = {} => EntriesOf(results, key) = {}

C1_Witness ==
    /\ fpc = "fused"
    /\ NotTruncated
    /\ \E key \in AllKeys :
          /\ RanksOf(dense_results, key) = {}
          /\ RanksOf(sparse_results, key) = {2}
          /\ \E i \in EntriesOf(results, key) : results[i].score * (k + 2) = Scale(k)
    /\ \E key \in AllKeys :
          /\ RanksOf(sparse_results, key) = {}
          /\ RanksOf(dense_results, key) # {}
          /\ EntriesOf(results, key) = {}

----------------------------------------------------------------------------
(* C2 *)

\* the scenario: dense [P1, P2], sparse [P2, P3] (matches without metadata),
\* k = 60, top_k = 2
Scenario ==
    /\ Fused
    /\ dense_results = <<ScoredMatch("P1", Absent, "dense"), ScoredMatch("P2", Absent, "dense")>>
    /\ sparse_results = <<ScoredMatch("P2", Absent, "sparse"), ScoredMatch("P3", Absent, "sparse")>>
    /\ k = 60
    /\ top_k = 2

\* C2 as stated: in the scenario fuse_rrf returns exactly [P2, P1].
C2_AsStated == Scenario => OutputIds(results) = <<"P2", "P1">>

\* C2 amended: in the scenario fuse_rrf returns exactly two entries, in the
\* order [P2, P3]; P1, found by the dense search only, is not returned.
C2_ScenarioOrder ==
    Scenario =>
        /\ Len(results) = 2
        /\ results[1].id = "P2"
        /\ results[2].id = "P3"
        /\ results[1].score = Scale(60) \div 62 + Scale(60) \div 61
        /\ results[2].score = Scale(60) \div 62

C2_Witness == Scenario /\ Len(results) = 2 /\ fpc = "fused"

----------------------------------------------------------------------------
(* C3 *)

\* the score an output gives key; NoScore when the output has no entry for it
NoScore == 0 - 1

ScoreIn(out, key) ==
    IF EntriesOf(out, key) = {} THEN NoScore
    ELSE out[CHOOSE i \in EntriesOf(out, key) : TRUE].score

----------------------------------------------------------------------------
(* C4 *)

\* C4 as stated: every id of the output is the id of some input match.
C4_AsStated ==
    Fused =>
        \A i \in 1 .. Len(results) :
            results[i].id \in IdsOf(dense_results) \cup IdsOf(sparse_results)

\* C4 amended: every id of the output is the join key (the patent_id metadata
\* value, the id when the match has none) of some match of the dense or of
\* the sparse input list.
C4_OutputIdsAreJoinKeys ==
    Fused =>
        \A i \in 1 .. Len(results) : results[i].id \in AllKeys

C4_Witness ==
    /\ fpc = "fused"
    /\ \E i \in 1 .. Len(results) :
          /\ results[i].id \notin IdsOf(dense_results) \cup IdsOf(sparse_results)
          /\ results[i].id \in KeysOf(sparse_results)
    /\ \E i \in 1 .. Len(results) : results[i].id \in IdsOf(sparse_results)

----------------------------------------------------------------------------
(* C5 *)

\* C5: for every positive top_k the output has at most top_k entries.
C5_AtMostTopK == Fused => Len(results) <= top_k

C5_Witness ==
    /\ fpc = "fused"
    /\ Cardinality(KeysOf(sparse_results)) > top_k
    /\ Len(results) = top_k

----------------------------------------------------------------------------
(* C6 *)

\* a dense match and a sparse match with different ids and the same patent_id
SurrogatePair(i, j) ==
    /\ dense_results[i].id # sparse_results[j].id
    /\ dense_results[i].metadata.patent_id # Absent
    /\ dense_results[i].metadata.patent_id = sparse_results[j].metadata.patent_id

NoKeyTwice(out) ==
    \A a, b \in 1 .. Len(out) : a # b => out[a].id # out[b].id

\* C6 as stated: such a pair produces exactly one output entry, whose score is
\* the sum of the pair's two rank terms, and no join key is output twice.
C6_AsStated ==
    Fused =>
        /\ NoKeyTwice(results)
        /\ \A i \in 1 .. Len(dense_results) : \A j \in 1 .. Len(sparse_results) :
              SurrogatePair(i, j) =>
                  /\ Cardinality(EntriesOf(results, KeyOf(sparse_results[j]))) = 1
                  /\ ScoreIn(results, KeyOf(sparse_results[j])) = SumOfTerms({i}) + SumOfTerms({j})

\* C6 amended: no join key is output twice; such a pair produces at most one
\* output entry, exactly one when top_k truncates nothing, and the score of
\* that entry is the sum of the rank terms of all matches that carry the key:
\* the pair's two terms when no other match carries it.
C6_JoinOnPatentId ==
    Fused =>
        /\ NoKeyTwice(results)
        /\ \A i \in 1 .. Len(dense_results) : \A j \in 1 .. Len(sparse_results) :
              SurrogatePair(i, j) =>
                  LET key == KeyOf(sparse_results[j])
                  IN /\ Cardinality(EntriesOf(results, key)) <= 1
                     /\ NotTruncated => Cardinality(EntriesOf(results, key)) = 1
                     /\ EntriesOf(results, key) # {} =>
                           /\ ScoreIn(results, key) =
                                 SumOfTerms(RanksOf(dense_results, key))
                                   + SumOfTerms(RanksOf(sparse_results, key))
                           /\ ( /\ RanksOf(dense_results, key) = {i}
                                /\ RanksOf(sparse_results, key) = {j} )
                                 => ScoreIn(results, key) = SumOfTerms({i}) + SumOfTerms({j})

C6_Witness ==
    /\ fpc = "fused"
    /\ \E i \in 1 .. Len(dense_results) : \E j \in 1 .. Len(sparse_results) :
          /\ SurrogatePair(i, j)
          /\ i # j
          /\ RanksOf(dense_results, KeyOf(sparse_results[j])) = {i}
          /\ RanksOf(sparse_results, KeyOf(sparse_results[j])) = {j}
          /\ Cardinality(EntriesOf(results, KeyOf(sparse_results[j]))) = 1
          /\ Len(results) = 2

----------------------------------------------------------------------------
(* C7 *)

\* C7: the output is sorted by non-increasing score, and of two entries with
\* the same score the one whose key is met first in the inputs (dense list,
\* then sparse list) comes first.
C7_SortedStable ==
    Fused =>
        \A a, b \in 1 .. Len(results) :
            a < b =>
                /\ results[a].score >= results[b].score
                /\ results[a].score = results[b].score
                      => FirstSeen(results[a].id) < FirstSeen(results[b].id)

C7_Witness ==
    /\ fpc = "fused"
    /\ Len(results) >= 2
    /\ results[1].score = results[2].score
    /\ \E a, b \in 1 .. Len(results) : results[a].score > results[b].score

----------------------------------------------------------------------------
(* C8 *)

\* C8: a join key carried by both lists is output with the metadata of a
\* sparse match.
C8_SparseMetadata ==
    Fused =>
        \A i \in 1 .. Len(results) :
            ( /\ results[i].id \in KeysOf(dense_results)
              /\ results[i].id \in KeysOf(sparse_results) )
            => results[i].metadata.src = "sparse"

----------------------------------------------------------------------------
(* Vocabulary of the retriever properties, stated on the log of adapter     *)
(* calls and on what the invocation returns.                                *)

FusionDone == \E i \in 1 .. Len(log) : log[i].ev = "fuse"

ClaimSearchIssued ==
    \E i \in 1 .. Len(log) : log[i].ev = "call" /\ log[i].stage = "claim"

\* the fused patent list carries no patent_id: each entry's metadata has
\* none, or an empty one
NoPatentIdFused ==
    \A i \in 1 .. Len(fused_pat) : fused_pat[i].metadata.patent_id \in {Absent, ""}

----------------------------------------------------------------------------
(* C9 *)

\* C9: once the patent-stage fusion has yielded no patent_id, the invocation
\* has returned the empty list without an error and has issued no claim-stage
\* search.
C9_EmptyShortCircuit ==
    (FusionDone /\ NoPatentIdFused) =>
        /\ hpc = "done"
        /\ result = <<>>
        /\ error = Absent
        /\ ~ClaimSearchIssued

C9_Witness ==
    /\ FusionDone
    /\ Len(fused_pat) > 0
    /\ NoPatentIdFused
    /\ \E i \in 1 .. Len(fused_pat) : fused_pat[i].metadata.patent_id = ""
    /\ hpc = "done"
    /\ ~ClaimSearchIssued

----------------------------------------------------------------------------
(* C10 *)

\* C10: when the claim-stage search is issued, the fusion has been computed,
\* every patent-stage search issued before it has returned, and nothing of
\* the patent stage (no search, no fusion) happens after it.
C10_ClaimStageAfterPatentStage ==
    \A i \in 1 .. Len(log) :
        (log[i].ev = "call" /\ log[i].stage = "claim") =>
            /\ \E j \in 1 .. i - 1 : log[j].ev = "fuse"
            /\ \A j \in 1 .. i - 1 :
                  (log[j].ev = "call" /\ log[j].stage = "patent") =>
                      \E m \in j + 1 .. i - 1 :
                          /\ log[m].ev = "return"
                          /\ log[m].adapter = log[j].adapter
                          /\ log[m].stage = "patent"
            /\ \A j \in i + 1 .. Len(log) : log[j].stage = "claim"

C10_Witness ==
    /\ hpc = "done"
    /\ ClaimSearchIssued
    /\ \E i \in 1 .. Len(log) : log[i].ev = "call" /\ log[i].adapter = "sparse"
    /\ Len(result) = 2

----------------------------------------------------------------------------
(* C11 *)

\* a search is in flight: it was called and has neither returned nor raised
InFlight(adapter, stage) ==
    \E i \in 1 .. Len(log) :
        /\ log[i].ev = "call" /\ log[i].adapter = adapter /\ log[i].stage = stage
        /\ \A j \in i + 1 .. Len(log) :
              ~(log[j].ev \in {"return", "raise"}
                /\ log[j].adapter = adapter /\ log[j].stage = stage)

\* query text is supplied and a sparse retriever is configured
QueryTextSupplied == has_sparse /\ query_text \notin {Absent, ""}

----------------------------------------------------------------------------
(* C12 *)

SparseCalls == {i \in 1 .. Len(log) : log[i].ev = "call" /\ log[i].adapter = "sparse"}

\* C12: the sparse adapter is called at most once, only with non-empty query
\* text, only before the fusion that ends the patent stage, and never once a
\* claim-stage search has been issued.
C12_SparseOnlyInPatentStage ==
    /\ Cardinality(SparseCalls) <= 1
    /\ \A i \in SparseCalls :
          /\ query_text \notin {Absent, ""}
          /\ \A j \in 1 .. i - 1 :
                log[j].ev # "fuse" /\ ~(log[j].ev = "call" /\ log[j].stage = "claim")

C12_Witness ==
    /\ hpc = "done"
    /\ Cardinality(SparseCalls) = 1
    /\ ClaimSearchIssued
    /\ Len(result) > 0

----------------------------------------------------------------------------
(* C13 *)

Raises == {i \in 1 .. Len(log) : log[i].ev = "raise"}

\* C13: a search that fails ends the invocation with that one error: the
\* failure is the last thing that happens (no retry, no later adapter call, no
\* fusion with the other source's hits), there is one failure only, and
\* nothing is returned.
C13_FailureIsFatal ==
    /\ \A i \in Raises :
          /\ i = Len(log)
          /\ hpc = "failed"
          /\ error = log[i].adapter
          /\ result = <<>>
          /\ log[i - 1].ev = "call"
          /\ log[i - 1].adapter = log[i].adapter
          /\ log[i - 1].stage = log[i].stage
    /\ Cardinality(Raises) <= 1
    /\ hpc = "failed" => Raises # {}

C13_Witness ==
    /\ hpc = "failed"
    /\ error = "sparse"
    /\ Len(dense_pat) > 0
    /\ \E i \in Raises : log[i].adapter = "sparse"

----------------------------------------------------------------------------
(* Claims about OpenAIReranker.rerank, stated on the states of SpecRerank *)

\* the first n elements of a sequence (all of it when it has fewer)
Prefix(seq, n) == [i \in 1 .. Min(n, Len(seq)) |-> seq[i]]

\* the input list truncated to max_candidates
Truncated == Prefix(items, rr_cfg.max_candidates)

Returned == rpc = "done" /\ reranker = "openai"

CandidateIds == {_candidate_id(candidates[i]) : i \in 1 .. Len(candidates)}

RankedIdSet == {ranked_ids[i] : i \in 1 .. Len(ranked_ids)}

OmitsOneId == Returned /\ llm_calls = 1 /\ Cardinality(CandidateIds \ RankedIdSet) = 1

OmittedId == CHOOSE id \in CandidateIds \ RankedIdSet : TRUE

EveryCandidateReturned ==
    \A i \in 1 .. Len(candidates) : \E j \in 1 .. Len(rr_result) : rr_result[j] = candidates[i]

OmittedIsLast ==
    Len(rr_result) > 0 /\ _candidate_id(rr_result[Len(rr_result)]) = OmittedId

\* C15 as stated: when the model's list omits one candidate's id, every
\* candidate is returned and the omitted one is the last of the result
C15_AsStated == OmitsOneId => (EveryCandidateReturned /\ OmittedIsLast)

DistinctCandidateIds ==
    \A i, j \in 1 .. Len(candidates) :
        i # j => _candidate_id(candidates[i]) # _candidate_id(candidates[j])

NoIdTwice == \A i, j \in 1 .. Len(ranked_ids) : i # j => ranked_ids[i] # ranked_ids[j]

\* C15: when the model's list omits one candidate's id, names no id twice,
\* the candidates have distinct ids and top_n is at least their number, the
\* result holds every candidate exactly once and the omitted one is last
C15_OmittedAppendedLast ==
    (/\ OmitsOneId
     /\ DistinctCandidateIds
     /\ NoIdTwice
     /\ rr_cfg.top_n >= Len(candidates))
        => /\ EveryCandidateReturned
           /\ Len(rr_result) = Len(candidates)
           /\ OmittedIsLast

\* three candidates, the model names the last two and omits the first, which
\* moves to the end
C15_Witness ==
    /\ OmitsOneId
    /\ DistinctCandidateIds
    /\ Len(candidates) = 3
    /\ rr_cfg.top_n = 3
    /\ Len(ranked_ids) = 2
    /\ ranked_ids[1] # ranked_ids[2]
    /\ OmittedId = _candidate_id(candidates[1])
    /\ rr_result[3] = candidates[1]

\* C16: whatever the input, the response and the configuration, a rerank
\* that returns returns at most top_n items
C16_AtMostTopN == rpc = "done" => Len(rr_result) <= rr_cfg.top_n

\* the answer of the model matches one of the candidates
NamesACandidate ==
    /\ response.doc.kind = "list"
    /\ \E i \in 1 .. Len(response.doc.ids) :
          /\ response.doc.ids[i].t = "str"
          /\ Strip(response.doc.ids[i].v) \in CandidateIds

\* the text of the model has no JSON object, or one that is not valid JSON,
\* or one without a ranked_ids list, or a list that names no candidate
Unusable ==
    \/ response.shape \in {"no_object", "invalid_json"}
    \/ response.shape \in {"object", "object_in_prose"} /\ ~NamesACandidate

\* C17: rerank fails only when the model gave no text at all, and when the
\* text it gave is unusable the result is the candidates in their original
\* order truncated to top_n
C17_FailOpen ==
    /\ rpc = "failed" => response.shape = "none"
    /\ (Returned /\ llm_calls = 1 /\ Unusable)
          => rr_result = Prefix(candidates, rr_cfg.top_n)

\* text that is not valid JSON, three candidates and top_n of 2
C17_Witness ==
    /\ Returned
    /\ llm_calls = 1
    /\ response.shape = "invalid_json"
    /\ Len(candidates) = 3
    /\ rr_cfg.top_n = 2
    /\ rr_result = <<candidates[1], candidates[2]>>

----------------------------------------------------------------------------
(* Claims about evidence assembly, stated on the states of SpecAssemble *)

\* the lookup has been issued (it may have returned or failed since)
LookupIssued == apc \in {"await_store", "done", "store_failed"} /\ Len(matches) > 0

\* C18: an assembly of a non-empty match list sends the collection exactly
\* one query, a find that carries the ids of all the matches in their order,
\* however many matches there are; at no time has it sent more than one
C18_OneBatchLookup ==
    /\ Len(lookups) <= 1
    /\ LookupIssued =>
          /\ Len(lookups) = 1
          /\ lookups[1].op = "find"
          /\ Len(lookups[1].ids) = Len(matches)
          /\ \A i \in 1 .. Len(matches) : lookups[1].ids[i] = matches[i].id

\* two matches with different ids, one query for both
C18_Witness ==
    /\ apc = "done"
    /\ Len(matches) = 2
    /\ matches[1].id # matches[2].id
    /\ Len(evidence) = 2
    /\ lookups = <<[op |-> "find", ids |-> <<matches[1].id, matches[2].id>>]>>

\* the document the collection holds for a match
Stored(match) == {doc \in collection : doc.id = match.id}

HasField(d, f) == f \in DOMAIN d

\* the text that the match's own metadata gives: text, else snippet, else ""
MetadataText(md) ==
    IF HasField(md, "text") THEN md["text"]
    ELSE IF HasField(md, "snippet") THEN md["snippet"]
    ELSE ""

\* C19: an assembly that was answered by the store returns one evidence item
\* per match, in the order of the matches; its text is the text of the
\* stored document when the collection holds a document for the match id
\* (and that document has a text), and else the metadata's text, else the
\* metadata's snippet, else ""; only a failure of the lookup itself fails it
C19_TextFallback ==
    /\ apc \in {"idle", "start", "await_store", "done", "store_failed"}
    /\ apc = "done" =>
          /\ Len(evidence) = Len(matches)
          /\ \A i \in 1 .. Len(matches) :
                /\ evidence[i].chunk_id = matches[i].id
                /\ \A doc \in Stored(matches[i]) :
                      HasField(doc, "text") => evidence[i].text = doc["text"]
                /\ (\A doc \in Stored(matches[i]) : ~HasField(doc, "text"))
                      => evidence[i].text = MetadataText(matches[i].metadata)

\* two matches: the first is stored and gets the stored text, the second is
\* not stored, its metadata has no text, and it gets the snippet
C19_Witness ==
    /\ apc = "done"
    /\ Len(matches) = 2
    /\ Stored(matches[1]) # {}
    /\ Stored(matches[2]) = {}
    /\ evidence[1].text = "d-text"
    /\ HasField(matches[1].metadata, "text")
    /\ ~HasField(matches[2].metadata, "text")
    /\ evidence[2].text = "m-snip"
    /\ evidence[2].chunk_id = matches[2].id

BackFilledFields == {"patent_id", "level", "title", "claim_no"}

\* C20: for patent_id, level, title and claim_no the evidence item has the
\* metadata's value when the metadata has the field, and when it has not,
\* the value that the stored document has for the same field
C20_MetadataThenStore ==
    apc = "done" =>
        \A i \in 1 .. Len(evidence) : \A f \in BackFilledFields :
            LET md == matches[i].metadata
            IN /\ HasField(md, f) => evidence[i][f] = md[f]
               /\ ~HasField(md, f) =>
                     \A doc \in Stored(matches[i]) :
                         HasField(doc, f) => evidence[i][f] = doc[f]
----------------------------------------------------------------------------
(* Further claims about retrieve_claims_hierarchical, on the states of      *)
(* SpecHier                                                                 *)

DensePatentReturned ==
    \E i \in 1 .. Len(log) :
        log[i].ev = "return" /\ log[i].adapter = "dense" /\ log[i].stage = "patent"

DenseCarriesPatentId ==
    \E i \in 1 .. Len(dense_pat) : dense_pat[i].metadata.patent_id \notin {Absent, ""}

\* C22: without query text, or without a sparse retriever, once the dense
\* patent search has returned at least one match that carries a patent_id,
\* the claim-stage search is issued (the retrieval does not end empty at the
\* patent stage)
C22_DenseAlone ==
    (/\ ~(has_sparse /\ query_text \notin {Absent, ""})
     /\ DensePatentReturned
     /\ DenseCarriesPatentId)
        => /\ ClaimSearchIssued
           /\ Len(patent_ids) > 0

\* C23: whatever the base_filter, every patent-stage search carries
\* level = 'patent', and the claim-stage search carries level = 'claim' and
\* patent_id restricted to exactly the patent ids extracted from the fused list
C23_StageFilters ==
    \A i \in 1 .. Len(log) :
        log[i].ev = "call" =>
            /\ log[i].stage = "patent" => log[i].filter.level = Eq("patent")
            /\ log[i].stage = "claim" =>
                  /\ log[i].filter.level = Eq("claim")
                  /\ log[i].filter.patent_id = In(patent_ids)
----------------------------------------------------------------------------
(* Further claims about OpenAIReranker.rerank, on the states of SpecRerank  *)

\* the model has answered and its list is usable: rerank has reordered
Reordered == Returned /\ llm_calls = 1 /\ Len(ranked_ids) > 0

\* the candidates that carry a given candidate id, in their original order
WithId(id) == SelectSeq(candidates, LAMBDA c : _candidate_id(c) = id)

\* the candidates the model names, id after id in the model's order
RECURSIVE NamedInOrder(_)
NamedInOrder(ids) ==
    IF Len(ids) = 0 THEN <<>> ELSE WithId(Head(ids)) \o NamedInOrder(Tail(ids))

\* the candidates the model does not name, in their original order
NotNamed == SelectSeq(candidates, LAMBDA c : _candidate_id(c) \notin RankedIdSet)

\* C24: when the model's list is usable, the list rerank builds (before the
\* truncation to top_n) is the candidates the model names, in the model's
\* order, followed by the candidates it does not name, in their original
\* order; ids that match no candidate contribute nothing
C24_NamedThenUnnamed == Reordered => rr_out = NamedInOrder(ranked_ids) \o NotNamed

Occurrences(seq, x) == Cardinality({i \in 1 .. Len(seq) : seq[i] = x})

\* C25: whatever the model answers and whatever the candidates, the list
\* rerank builds (before the truncation to top_n) is a permutation of the
\* candidates: it holds each candidate exactly once
C25_Permutation ==
    Reordered =>
        /\ Len(rr_out) = Len(candidates)
        /\ \A i \in 1 .. Len(candidates) : Occurrences(rr_out, candidates[i]) = 1

\* the ids a ranked_ids list lists: its strings, without surrounding blanks,
\* blank ones left out
RECURSIVE ListedIds(_)
ListedIds(l) ==
    IF Len(l) = 0 THEN <<>>
    ELSE (IF Head(l).t = "str" /\ Strip(Head(l).v) # "" THEN <<Strip(Head(l).v)>> ELSE <<>>)
         \o ListedIds(Tail(l))

\* the first top-level JSON object of the response is a well-formed
\* {"ranked_ids": [...]} object
FirstObjectWellFormed ==
    /\ response.shape \in {"object", "object_in_prose", "object_then_braces"}
    /\ response.doc.kind = "list"

\* C26: from a response whose first top-level JSON object is a well-formed
\* {"ranked_ids": [...]} object, whatever surrounds it, _parse_ranked_ids
\* returns the listed ids in order; from any other response it returns []
C26_FirstObjectParsed ==
    (rpc = "done" /\ llm_calls = 1) =>
        ranked_ids = IF FirstObjectWellFormed THEN ListedIds(response.doc.ids) ELSE <<>>
----------------------------------------------------------------------------
(* Claims about the retry loops, on the states of SpecRetry *)

\* the prompt or text is missing, empty or made of blanks only
EmptyOrWhitespace ==
    \/ call_text \in {Absent, ""}
    \/ \A i \in 1 .. Len(call_text) : SubSeq(call_text, i, i) = " "

\* C27: a call makes at most max_retries attempts; a successful attempt is
\* the last one and its result is returned; the call fails with RuntimeError
\* only when max_retries attempts in a row have failed; an empty or
\* whitespace-only prompt or text is rejected (ValueError) with no attempt
\* made, and nothing else is rejected that way
C27_BoundedRetries ==
    /\ Len(attempts) <= max_retries
    /\ \A i \in 1 .. Len(attempts) :
          attempts[i] = "ok" =>
              /\ i = Len(attempts)
              /\ retry_pc = "returned"
              /\ outcome = "value"
    /\ outcome = "value" => (Len(attempts) > 0 /\ attempts[Len(attempts)] = "ok")
    /\ outcome = "RuntimeError" =>
          /\ Len(attempts) = max_retries
          /\ \A i \in 1 .. Len(attempts) : attempts[i] = "fail"
    /\ (EmptyOrWhitespace /\ retry_pc # "start") =>
          (outcome = "ValueError" /\ attempts = <<>>)
    /\ outcome = "ValueError" => EmptyOrWhitespace
    /\ retry_pc \in {"start", "attempt"} => outcome = "none"

\* the third of three allowed attempts succeeds, after two failures and two
\* sleeps
C27_Witness ==
    /\ retry_pc = "returned"
    /\ max_retries = 3
    /\ attempts = <<"fail", "fail", "ok">>
    /\ sleeps = <<1, 2>>
    /\ outcome = "value"
----------------------------------------------------------------------------
(* Claim about DenseRetriever.search, on the states of SpecDense *)

SearchEntered == entry = "DenseRetriever.search" /\ dpc # "start"

FilterLevel == IF "level" \in DOMAIN metadata_filter THEN metadata_filter["level"] ELSE None

ValidSearchArguments ==
    /\ Len(dense_vector) > 0
    /\ d_top_k > 0
    /\ FilterLevel \in {"patent", "claim"}

\* C28: a search with a non-empty vector, top_k > 0 and a filter of level
\* 'patent' or 'claim' sends one query, to the index of that level, and
\* returns what that index answers; a search with top_k <= 0 or an empty
\* vector fails with an invalid-argument error (ValueError) and no index is
\* queried
C28_DenseSearch ==
    /\ (SearchEntered /\ ValidSearchArguments) =>
          /\ Len(index_queries) = 1
          /\ index_queries[1].index = FilterLevel
          /\ index_queries[1].top_k = d_top_k
          /\ d_outcome \in {"none", "matches", "IndexError"}
    /\ (SearchEntered /\ (d_top_k <= 0 \/ Len(dense_vector) = 0)) =>
          /\ d_outcome = "ValueError"
          /\ index_queries = <<>>
----------------------------------------------------------------------------
(* Claim about _build_filter_clauses, on the states of SpecFilter *)

ClausesOn(key) == {i \in 1 .. Len(filter_clauses) : filter_clauses[i].field = key}

\* C29: after the translation every constraint of the filter has its
\* clause on the same field: a plain value an exact-match (term) clause,
\* "$in" a set-membership (terms) clause, each of $gte, $lte, $gt, $lt its
\* bound in a range clause; a dict with none of these operators has no clause
C29_NoConstraintLost ==
    bpc = "done" =>
        \A n \in 1 .. Len(sparse_filter) :
            LET key == sparse_filter[n].key
                value == sparse_filter[n].value
            IN IF ~value.is_dict
               THEN \E i \in ClausesOn(key) :
                        /\ filter_clauses[i].type = "term"
                        /\ filter_clauses[i].term = value.plain
               ELSE /\ "$in" \in DOMAIN value.ops =>
                          \E i \in ClausesOn(key) :
                              /\ filter_clauses[i].type = "terms"
                              /\ filter_clauses[i].terms = value.ops["$in"]
                    /\ \A op \in RangeOperators \cap DOMAIN value.ops :
                          \E i \in ClausesOn(key) :
                              /\ filter_clauses[i].type = "range"
                              /\ BoundName(op) \in DOMAIN filter_clauses[i].range
                              /\ filter_clauses[i].range[BoundName(op)] = value.ops[op]
                    /\ (DOMAIN value.ops \cap (RangeOperators \cup {"$in"}) = {}) =>
                          ClausesOn(key) = {}

----------------------------------------------------------------------------
(* Claims about RAGOrchestrator.query, stated on the states of SpecQuery *)

QueryReturned == qpc = "returned"

\* the stages started, in order
RECURSIVE StartedStages(_)
StartedStages(evs) ==
    IF evs = <<>> THEN <<>>
    ELSE IF Head(evs).event = "started"
         THEN <<Head(evs).stage>> \o StartedStages(Tail(evs))
         ELSE StartedStages(Tail(evs))

\* each stage starts only after the stage started before it has completed
OneStageAtATime ==
    \A i \in 1 .. Len(stages) :
        stages[i].event = "started" /\ i > 1 => stages[i - 1].event = "completed"

\* C21: a query that returns has run encode, hierarchical retrieval, evidence
\* assembly, reranking, truncation to final_top_n and answer generation, in
\* this order and one after the other, and at most final_top_n evidence items
\* reached answer generation
C21_StageOrder ==
    QueryReturned =>
        /\ StartedStages(stages) =
               <<"encode", "retrieve", "assemble", "rerank", "truncate", "generate">>
        /\ OneStageAtATime
        /\ Len(evidence_items) <= final_top_n

\* the retrieval has returned, and returned no candidates
RetrievedNothing ==
    /\ qpc \notin {"start", "await_embed", "await_retrieve"}
    /\ \E i \in 1 .. Len(stages) : stages[i] = Completed("retrieve")
    /\ q_candidates = <<>>

\* C30: when the retrieval returns no candidates, query does not raise, sends
\* no lookup to the document store and does not call the generative model,
\* and it returns the fixed answer with an empty evidence list
C30_NoCandidatesNoCalls ==
    /\ [](RetrievedNothing =>
            /\ qpc # "raised"
            /\ lookups = <<>>
            /\ generate_calls = <<>>
            /\ QueryReturned => q_response = QueryResponse(mode, NoEvidenceAnswer, <<>>))
    /\ (RetrievedNothing ~> QueryReturned)

C30_Witness ==
    /\ RetrievedNothing
    /\ QueryReturned
    /\ q_response.answer = NoEvidenceAnswer

====
